---- MODULE Spec2Model ----
(***************************************************************************)
(* Model of the yolo-ios-app helper scripts:                               *)
(*   scripts/export-models.py  main(): the CoreML export driver            *)
(*   template/module1.py       add_numbers(), get_git_dir()                *)
(*   tests/test_module1.py     test_add_numbers()                          *)
(*                                                                         *)
(* A path is a sequence of components and a component (a file name) is the *)
(* sequence of its dot-separated parts, so "a/yolo26n.mlpackage" is        *)
(* << <<"a">>, <<"yolo26n", "mlpackage">> >>.  The filesystem is a function *)
(* from the existing paths to nodes.                                       *)
(***************************************************************************)
EXTENDS Integers, Sequences, FiniteSets, TLC

VARIABLES
    pc,          \* position of main(): the statement to execute next
    si, ti,      \* positions of the two for loops, in SIZES and in TASKS
    model_name,  \* main()'s local model_name
    src, dst,    \* main()'s locals src and dst
    fs,          \* the filesystem
    log,         \* the calls main() has completed, in order
    calls,       \* the export requests made to the library
    stdout,      \* what main() has printed
    raised,      \* the statement at which an exception left main(), or "none"
    env,         \* what main() does not decide: where and how the library exports
    add,         \* state of a call of add_numbers and of its test
    git          \* state of a call of get_git_dir

vars == <<pc, si, ti, model_name, src, dst, fs, log, calls, stdout, raised, env, add, git>>

mainVars == <<pc, si, ti, model_name, src, dst, fs, log, calls, stdout, raised, env>>

----------------------------------------------------------------------------
(* pathlib *)

NoPath == << >>

Parent(p) == SubSeq(p, 1, Len(p) - 1)

Name(p) == p[Len(p)]

IsPrefix(p, q) == Len(p) <= Len(q) /\ SubSeq(q, 1, Len(p)) = p

\* q.relative_to(base), for q under base
RelativeTo(q, base) == SubSeq(q, Len(base) + 1, Len(q))

Rebase(q, from, to) == to \o RelativeTo(q, from)

\* PurePath.with_suffix: the last suffix of the name, if it has one, is replaced
WithSuffix(p, suffix) ==
    LET name == Name(p)
        stem == IF Len(name) > 1 THEN SubSeq(name, 1, Len(name) - 1) ELSE name
    IN  Parent(p) \o << stem \o suffix >>

----------------------------------------------------------------------------
(* the filesystem *)

DirNode == [kind |-> "dir", data |-> "", entries |-> {}]

FileNode(data) == [kind |-> "file", data |-> data, entries |-> {}]

ZipNode(entries) == [kind |-> "zip", data |-> "", entries |-> entries]

Exists(f, p) == p \in DOMAIN f

IsDir(f, p) == p \in DOMAIN f /\ f[p].kind = "dir"

Ancestors(p) == {SubSeq(p, 1, k) : k \in 1..Len(p)}

\* Path.mkdir(parents=True, exist_ok=True) raises when p or an ancestor is not a directory
MkdirRaises(f, p) == \E q \in Ancestors(p) : q \in DOMAIN f /\ f[q].kind # "dir"

MkdirParents(f, p) ==
    [q \in DOMAIN f \cup Ancestors(p) |-> IF q \in DOMAIN f THEN f[q] ELSE DirNode]

\* Path.rglob("*"): everything below p, p itself excluded
Rglob(f, p) == {q \in DOMAIN f : IsPrefix(p, q) /\ q # p}

\* a removal that takes the whole directory holding p
RmtreeParent(f, p) == [q \in {x \in DOMAIN f : ~IsPrefix(Parent(p), x)} |-> f[q]]

\* shutil.rmtree(p), p a directory
Rmtree(f, p) == [q \in {x \in DOMAIN f : ~IsPrefix(p, x)} |-> f[q]]

\* shutil.copytree(s, d) of the entries `some` of s; d does not exist
CopyEntries(f, s, d, some) ==
    LET g == MkdirParents(f, d)
        new == {Rebase(q, s, d) : q \in some}
    IN  [q \in DOMAIN g \cup new |-> IF q \in new THEN f[Rebase(q, d, s)] ELSE g[q]]

\* a copy of the top level of s only: what is nested deeper is left behind
CopytreeShallow(f, s, d) == CopyEntries(f, s, d, {q \in Rglob(f, s) : Parent(q) = s})

\* shutil.copytree(s, d)
Copytree(f, s, d) == CopyEntries(f, s, d, Rglob(f, s))

\* subsets of the entries below s that a copy or an archive interrupted by an
\* error can have written: closed under parent, and not all of them
Partial(f, s) ==
    {some \in SUBSET Rglob(f, s) :
        /\ some # Rglob(f, s)
        /\ \A q \in some : Parent(q) = s \/ Parent(q) \in some}

\* the entries zf.write(file, file.relative_to(src.parent)) adds for the files `some`
ZipEntries(f, s, some) ==
    {[name |-> RelativeTo(q, Parent(s)), kind |-> f[q].kind, data |-> f[q].data] : q \in some}

\* an archive step that writes nothing
WriteZipNothing(f, zip_path, entries) == f

\* ZipFile(zip_path, "w"): the archive is created or truncated, then written
WriteZip(f, zip_path, entries) ==
    [q \in DOMAIN f \cup {zip_path} |-> IF q = zip_path THEN ZipNode(entries) ELSE f[q]]

----------------------------------------------------------------------------
(* scripts/export-models.py: the constants *)

ROOT == << <<"repo">> >>

APP_MODELS == ROOT \o << <<"YOLOiOSApp">>, <<"Models">> >>

SIZES == <<"n", "s", "m", "l", "x">>

\* the keys of TASKS, in the order a loop over TASKS.items() visits them
SUFFIXES == <<"", "-cls", "-seg", "-pose", "-obb">>

TASKS ==
    ("" :> "Detect") @@ ("-cls" :> "Classify") @@ ("-seg" :> "Segment")
        @@ ("-pose" :> "Pose") @@ ("-obb" :> "OBB")

\* a model name that leaves the size letter out
ModelNameNoSize(size, suffix) == "yolo26" \o suffix \o ".pt"

\* f"yolo26{size}{suffix}.pt"
ModelName(size, suffix) == "yolo26" \o size \o suffix \o ".pt"

ExportOptions == [format |-> "coreml", int8 |-> TRUE, nms |-> FALSE]

\* the destination taken next to the exported artifact instead of under APP_MODELS
DstBesideSource(task_dir, s) == Parent(s) \o << <<task_dir>>, Name(s) >>

\* dst = APP_MODELS / task_dir / src.name
Dst(task_dir, s) == APP_MODELS \o << <<task_dir>>, Name(s) >>

\* the archive named after the stem only
ZipPathStem(s) == WithSuffix(s, <<"zip">>)

\* zip_path = src.with_suffix(".mlpackage.zip")
ZipPath(s) == WithSuffix(s, <<"mlpackage", "zip">>)

SuccessMessage == "All models exported, copied, and zipped successfully!"

----------------------------------------------------------------------------
(* what the library and the machine decide *)

\* directories the library can leave the exported package in: a working
\* directory outside the repository, the app's Models directory, and the
\* Detect directory below it
ExportDirs ==
    { << <<"work">> >>, APP_MODELS, APP_MODELS \o << <<"Detect">> >> }

\* "model": the package is named after the model (yolo26<size><suffix>.mlpackage);
\* "task":  the package name leaves the size out
Namings == {"model", "task"}

ExportedName(naming, size, suffix) ==
    << IF naming = "model" THEN "yolo26" \o size \o suffix ELSE "yolo26" \o suffix,
       "mlpackage" >>

ManifestJson == <<"Manifest", "json">>

PkgFlat == { [rel |-> <<ManifestJson>>, kind |-> "file"] }

PkgNested ==
    PkgFlat \cup { [rel |-> << <<"Data">> >>, kind |-> "dir"],
                   [rel |-> << <<"Data">>, <<"model", "mlmodel">> >>, kind |-> "file"] }

Packages == {PkgFlat, PkgNested}

\* the pairs whose destination can be occupied before the run are those of the
\* first MaxPrior sizes and the first MaxPrior tasks
MaxPrior == 2

\* what is at one pair's destination before the run
PriorKinds == {"absent", "emptydir", "staledir", "file", "parentfile"}

Envs ==
    { e \in [dir : ExportDirs, naming : Namings, pkg : Packages,
             prior : PriorKinds, psize : 1..MaxPrior, ptask : 1..MaxPrior] :
        /\ e.prior = "absent" => (e.psize = 1 /\ e.ptask = 1)
        /\ e.prior = "parentfile" =>
              APP_MODELS \o << <<TASKS[SUFFIXES[e.ptask]]>> >> \notin Ancestors(e.dir) }

\* where Path(exported) points for the pair (size, suffix)
ExportedPath(e, size, suffix) == e.dir \o << ExportedName(e.naming, size, suffix) >>

\* the library writes the package at s, replacing what was there
ExportWrite(f, s, pkg, tag) ==
    LET kept == [q \in {x \in DOMAIN f : ~IsPrefix(s, x)} |-> f[q]]
        g == MkdirParents(kept, s)
        new == {s \o x.rel : x \in pkg}
    IN  [q \in DOMAIN g \cup new |->
            IF q \in new
            THEN LET x == CHOOSE y \in pkg : q = s \o y.rel
                 IN  IF x.kind = "dir" THEN DirNode ELSE FileNode(tag)
            ELSE g[q]]

EmptyFs == [q \in {} |-> DirNode]

PriorDst(e) ==
    Dst(TASKS[SUFFIXES[e.ptask]], ExportedPath(e, SIZES[e.psize], SUFFIXES[e.ptask]))

InitialFs(e) ==
    LET base == MkdirParents(MkdirParents(EmptyFs, ROOT), e.dir)
        d == PriorDst(e)
        withDir == MkdirParents(base, d)
    IN  CASE e.prior = "absent" -> base
          [] e.prior = "emptydir" -> withDir
          [] e.prior = "staledir" ->
                (d \o <<ManifestJson>> :> FileNode("stale"))
                    @@ (d \o << <<"old", "bin">> >> :> FileNode("stale")) @@ withDir
          [] e.prior = "file" -> (d :> FileNode("stale")) @@ MkdirParents(base, Parent(d))
          [] e.prior = "parentfile" ->
                (Parent(d) :> FileNode("stale")) @@ MkdirParents(base, Parent(Parent(d)))

----------------------------------------------------------------------------
(* scripts/export-models.py: main() *)

size == SIZES[si]

suffix == SUFFIXES[ti]

task_dir == TASKS[suffix]

Event(op) == [op |-> op, size |-> size, suffix |-> suffix]

Line(text, name, path) == [text |-> text, name |-> name, path |-> path]

\* an exception swallowed: main() carries on with the statement after the failed one
RaiseSwallowed(at) ==
    /\ pc' = CASE at = "load" -> "export" [] at = "export" -> "mkdir" [] at = "mkdir" -> "rm"
               [] at = "rm" -> "copy" [] at = "copy" -> "zip" [] OTHER -> "failed"
    /\ raised' = at
    /\ UNCHANGED <<si, ti, log, env>>

\* an exception nothing catches: it leaves main() and ends the run
Raise(at) ==
    /\ pc' = "failed"
    /\ raised' = at
    /\ UNCHANGED <<si, ti, log, env>>

\* lines 38-40: model_name, the progress message, YOLO(model_name)
Load ==
    /\ pc = "load"
    /\ model_name' = ModelName(size, suffix)
    /\ stdout' = Append(stdout, Line("Exporting", ModelName(size, suffix), NoPath))
    /\ UNCHANGED <<src, dst, fs, calls, add, git>>
    /\ \/ /\ pc' = "export"
          /\ log' = Append(log, Event("load"))
          /\ UNCHANGED <<si, ti, raised, env>>
       \/ Raise("load")

\* lines 41-45: model.export(...), src, dst
Export ==
    /\ pc = "export"
    /\ calls' = Append(calls, [model |-> model_name] @@ ExportOptions)
    /\ UNCHANGED <<model_name, stdout, add, git>>
    /\ \/ LET exported == ExportedPath(env, size, suffix)
          IN  /\ fs' = ExportWrite(fs, exported, env.pkg, model_name)
              /\ src' = exported
              /\ dst' = Dst(task_dir, exported)
              /\ pc' = "mkdir"
              /\ log' = Append(log, Event("export"))
              /\ UNCHANGED <<si, ti, raised, env>>
       \/ Raise("export") /\ UNCHANGED <<src, dst, fs>>

\* line 46: dst.parent.mkdir(parents=True, exist_ok=True)
Mkdir ==
    /\ pc = "mkdir"
    /\ UNCHANGED <<model_name, src, dst, calls, stdout, add, git>>
    /\ \/ /\ ~MkdirRaises(fs, Parent(dst))
          /\ fs' = MkdirParents(fs, Parent(dst))
          /\ pc' = "rm"
          /\ log' = Append(log, Event("mkdir"))
          /\ UNCHANGED <<si, ti, raised, env>>
       \/ Raise("mkdir") /\ UNCHANGED fs

\* lines 48-49: if dst.exists(): shutil.rmtree(dst)
Remove ==
    /\ pc = "rm"
    /\ UNCHANGED <<model_name, src, dst, calls, stdout, add, git>>
    /\ \/ /\ ~Exists(fs, dst)
          /\ pc' = "copy"
          /\ UNCHANGED <<fs, log, si, ti, raised, env>>
       \/ /\ IsDir(fs, dst)
          /\ fs' = Rmtree(fs, dst)
          /\ pc' = "copy"
          /\ log' = Append(log, Event("rmtree"))
          /\ UNCHANGED <<si, ti, raised, env>>
       \/ /\ Exists(fs, dst)
          /\ Raise("rm")
          /\ UNCHANGED fs

\* lines 51-52: shutil.copytree(src, dst), the progress message
Copy ==
    /\ pc = "copy"
    /\ UNCHANGED <<model_name, src, dst, calls, add, git>>
    /\ \/ /\ IsDir(fs, src)
          /\ ~Exists(fs, dst)
          /\ fs' = Copytree(fs, src, dst)
          /\ stdout' = Append(stdout, Line("Copied to", "", RelativeTo(dst, ROOT)))
          /\ pc' = "zip"
          /\ log' = Append(log, Event("copy"))
          /\ UNCHANGED <<si, ti, raised, env>>
       \/ /\ Raise("copy")
          /\ UNCHANGED stdout
          /\ \/ UNCHANGED fs
             \/ /\ IsDir(fs, src)
                /\ ~Exists(fs, dst)
                /\ \E some \in Partial(fs, src) : fs' = CopyEntries(fs, src, dst, some)

\* the for loops taken task-major
AdvanceTaskMajor ==
    IF si < Len(SIZES)
    THEN pc' = "load" /\ si' = si + 1 /\ ti' = ti
    ELSE IF ti < Len(SUFFIXES)
         THEN pc' = "load" /\ si' = 1 /\ ti' = ti + 1
         ELSE pc' = "finish" /\ UNCHANGED <<si, ti>>

\* lines 36-37: the next (size, suffix) of the nested for loops, or the end of both
Advance ==
    IF ti < Len(SUFFIXES)
    THEN pc' = "load" /\ ti' = ti + 1 /\ si' = si
    ELSE IF si < Len(SIZES)
         THEN pc' = "load" /\ ti' = 1 /\ si' = si + 1
         ELSE pc' = "finish" /\ UNCHANGED <<si, ti>>

\* lines 55-59: the archive next to src, the progress message
Zip ==
    /\ pc = "zip"
    /\ UNCHANGED <<model_name, src, dst, calls, add, git>>
    /\ \/ /\ ~IsDir(fs, ZipPath(src))
          /\ fs' = WriteZip(fs, ZipPath(src), ZipEntries(fs, src, Rglob(fs, src)))
          /\ stdout' = Append(stdout, Line("Zipped to", "", <<Name(ZipPath(src))>>))
          /\ log' = Append(log, Event("zip"))
          /\ Advance
          /\ UNCHANGED <<raised, env>>
       \/ /\ Raise("zip")
          /\ UNCHANGED stdout
          /\ \/ UNCHANGED fs
             \/ /\ ~IsDir(fs, ZipPath(src))
                /\ \E some \in Partial(fs, src) :
                      fs' = WriteZip(fs, ZipPath(src), ZipEntries(fs, src, some))

\* line 61: the closing message
Finish ==
    /\ pc = "finish"
    /\ stdout' = Append(stdout, Line(SuccessMessage, "", NoPath))
    /\ pc' = "done"
    /\ UNCHANGED <<si, ti, model_name, src, dst, fs, log, calls, raised, env, add, git>>

----------------------------------------------------------------------------
(* template/module1.py and tests/test_module1.py *)

MaxInt == 3

Ints == (0 - MaxInt)..MaxInt

\* a subtraction where the sum is meant
add_numbers_minus(a, b) == a - b

\* def add_numbers(a, b): return a + b
add_numbers(a, b) == a + b

AddIdle == [pc |-> "idle", a |-> 0, b |-> 0, c |-> 0, ab |-> 0, ba |-> 0,
            ab_c |-> 0, a_bc |-> 0, asserts |-> << >>]

\* a caller evaluating add_numbers on a, b and c
AddCall ==
    /\ add.pc = "call"
    /\ add' = [add EXCEPT !.pc = "test",
                          !.ab = add_numbers(add.a, add.b),
                          !.ba = add_numbers(add.b, add.a),
                          !.ab_c = add_numbers(add_numbers(add.a, add.b), add.c),
                          !.a_bc = add_numbers(add.a, add_numbers(add.b, add.c))]
    /\ UNCHANGED <<mainVars, git>>

\* test_add_numbers: the value of each assert's left-hand side
test_add_numbers ==
    /\ add.pc = "test"
    /\ add' = [add EXCEPT !.pc = "done",
                          !.asserts = << add_numbers(2, 3), add_numbers(0 - 1, 1),
                                         add_numbers(0 - 1, 0 - 1) >>]
    /\ UNCHANGED <<mainVars, git>>

MaxDepth == 4

\* the value get_git_dir returns when the loop ends without a return
None == 0

MarkerKinds == {"absent", "dir", "file"}

\* a marker of any kind taken for a repository
HasGitEntry(marker, d) == marker[d] # "absent"

\* (d / ".git").is_dir()
HasGitDir(marker, d) == marker[d] = "dir"

GitIdle == [pc |-> "idle", marker |-> << >>, d |-> 0, ret |-> None]

\* for d in Path(__file__).parents: if (d / ".git").is_dir(): return d
\* git.marker[k] says what .git is in the k-th parent of the module file;
\* the first is the file's directory and the last the filesystem root
GitCheck ==
    /\ git.pc = "walk"
    /\ git.d <= Len(git.marker)
    /\ git' = IF HasGitDir(git.marker, git.d)
              THEN [git EXCEPT !.pc = "returned", !.ret = git.d]
              ELSE [git EXCEPT !.d = git.d + 1]
    /\ UNCHANGED <<mainVars, add>>

\* the loop ran out of parents: the function ends and returns None
GitExhausted ==
    /\ git.pc = "walk"
    /\ git.d > Len(git.marker)
    /\ git' = [git EXCEPT !.pc = "returned", !.ret = None]
    /\ UNCHANGED <<mainVars, add>>

MainIdle ==
    /\ env = [dir |-> NoPath, naming |-> "model", pkg |-> {}, prior |-> "absent",
              psize |-> 1, ptask |-> 1]
    /\ fs = EmptyFs
    /\ pc = "idle"
    /\ si = 1
    /\ ti = 1
    /\ model_name = ""
    /\ src = NoPath
    /\ dst = NoPath
    /\ log = << >>
    /\ calls = << >>
    /\ stdout = << >>
    /\ raised = "none"

InitFor(envs) ==
    /\ env \in envs
    /\ fs = InitialFs(env)
    /\ pc = "load"
    /\ si = 1
    /\ ti = 1
    /\ model_name = ""
    /\ src = NoPath
    /\ dst = NoPath
    /\ log = << >>
    /\ calls = << >>
    /\ stdout = << >>
    /\ raised = "none"
    /\ add = AddIdle
    /\ git = GitIdle

Init == InitFor(Envs)

Next == Load \/ Export \/ Mkdir \/ Remove \/ Copy \/ Zip \/ Finish

Spec == Init /\ [][Next]_vars

\* the runs in which the library names each package after its model
InitNamed == InitFor({e \in Envs : e.naming = "model"})

SpecNamed == InitNamed /\ [][Next]_vars

InitAdd ==
    /\ MainIdle
    /\ git = GitIdle
    /\ \E a \in Ints, b \in Ints, c \in Ints :
          add = [AddIdle EXCEPT !.pc = "call", !.a = a, !.b = b, !.c = c]

NextAdd == AddCall \/ test_add_numbers

SpecAdd == InitAdd /\ [][NextAdd]_vars

InitGit ==
    /\ MainIdle
    /\ add = AddIdle
    /\ \E n \in 1..MaxDepth : \E marker \in [1..n -> MarkerKinds] :
          git = [GitIdle EXCEPT !.pc = "walk", !.marker = marker, !.d = 1]

NextGit == GitCheck \/ GitExhausted

SpecGit == InitGit /\ [][NextGit]_vars

----------------------------------------------------------------------------
(* the properties *)

Pairs == {<<z, s>> : z \in {SIZES[i] : i \in 1..Len(SIZES)},
                     s \in {SUFFIXES[j] : j \in 1..Len(SUFFIXES)}}

\* the pairs for which `op` is logged, and how many times it is logged in all
Logged(op) == {<<log[k].size, log[k].suffix>> : k \in {j \in 1..Len(log) : log[j].op = op}}

Times(op) == Cardinality({k \in 1..Len(log) : log[k].op = op})

Count(op, p) ==
    Cardinality({k \in 1..Len(log) : log[k] = [op |-> op, size |-> p[1], suffix |-> p[2]]})

IndexIn(seq, x) == CHOOSE i \in 1..Len(seq) : seq[i] = x

\* position of a pair when all suffixes of size n come first, then those of s, m, l, x
SizeMajor(z, s) == (IndexIn(SIZES, z) - 1) * Len(SUFFIXES) + IndexIn(SUFFIXES, s)

\* the entries below p, by their path relative to p
Tree(f, p) == {[rel |-> RelativeTo(q, p), node |-> f[q]] : q \in Rglob(f, p)}

\* the package the library exports for the model `name`, as such a tree
ExportedTree(name) ==
    {[rel |-> x.rel, node |-> IF x.kind = "dir" THEN DirNode ELSE FileNode(name)] : x \in env.pkg}

Printed(text) == \E k \in 1..Len(stdout) : stdout[k].text = text

LastOp == IF Len(log) = 0 THEN "none" ELSE log[Len(log)].op

\* C1: in a run in which nothing raises, each of the 25 pairs of SIZES x TASKS is
\* exported exactly once, copied exactly once and archived at most once, every
\* export is requested with format coreml, int8 on, nms off for the model
\* yolo26<size><suffix>.pt, and at no time has a pair been processed twice.
C1_EachPairOnce ==
    /\ Cardinality(Pairs) = 25
    /\ \A k \in 1..Len(calls) :
          /\ calls[k].format = "coreml" /\ calls[k].int8 = TRUE /\ calls[k].nms = FALSE
          /\ \E p \in Pairs : calls[k].model = "yolo26" \o p[1] \o p[2] \o ".pt"
    /\ Cardinality({calls[k].model : k \in 1..Len(calls)}) = Len(calls)
    /\ \A op \in {"load", "export", "copy", "zip"} :
          Logged(op) \subseteq Pairs /\ Cardinality(Logged(op)) = Times(op)
    /\ pc = "done" =>
          /\ Len(calls) = 25
          /\ Logged("export") = Pairs
          /\ Logged("copy") = Pairs

C1_Witness == pc = "done" /\ Len(calls) = 25 /\ env.prior = "staledir"

NonDirectoryDestinationStopsRun ==
    /\ (pc = "rm" /\ Exists(fs, dst) /\ ~IsDir(fs, dst)) => ~ENABLED (Remove /\ pc' = "copy")
    /\ (pc = "failed" /\ raised = "rm" /\ ~IsDir(fs, dst)) => fs[dst] = FileNode("stale")

NonDirectoryDestinationReached ==
    pc = "failed" /\ raised = "rm" /\ env.prior = "file" /\ si = 2 /\ ti = 2

\* C3: a step that fails ends the run at that step: the run is in its failed
\* state with the failing statement recorded, the step is not logged as done, the
\* loops do not move, the closing message is never printed, nothing that existed
\* is removed or changed except the archive being written, a destination removed
\* before a failed copy holds at most copies of the new artifact, and no step
\* follows the failure.
C3_FailureEndsRun ==
    /\ [](raised # "none" => (pc = "failed" /\ ~Printed(SuccessMessage)))
    /\ [][ /\ raised = "none"
           /\ raised' # "none" =>
                /\ raised' = pc /\ pc' = "failed"
                /\ log' = log /\ si' = si /\ ti' = ti
                /\ \A q \in DOMAIN fs :
                      /\ q \in DOMAIN fs'
                      /\ fs'[q] # fs[q] =>
                            (pc = "zip" /\ q = Parent(src) \o << Name(src) \o <<"zip">> >>)
                /\ pc = "copy" =>
                      \A q \in DOMAIN fs' \ DOMAIN fs :
                          IsPrefix(dst, q) /\ (q # dst => fs'[q] = fs[Rebase(q, dst, src)])
         ]_vars

C3_Witness ==
    /\ pc = "failed" /\ raised = "copy"
    /\ env.prior = "staledir" /\ env.psize = si /\ env.ptask = ti /\ si = 2
    /\ Count("rmtree", <<size, suffix>>) = 1
    /\ ~Exists(fs, dst)
    /\ Exists(fs, Dst("Detect", ExportedPath(env, "n", "")))

\* C4 as stated: the archive is optional, so once the copy is done the run can go
\* on to the next pair, or to its end, without an archive being written.
C4_ArchiveOptional ==
    pc = "zip" => ENABLED (Next /\ pc' \in {"load", "finish"} /\ fs' = fs)

\* C4 as amended: the archive is not optional.  A pair whose iteration is over
\* has been archived, and when the run completes all 25 archives exist.
C4_ArchiveAlways ==
    /\ Logged("zip") \subseteq Logged("copy")
    /\ Logged("copy") \ Logged("zip") \subseteq
          (IF pc = "zip" \/ (pc = "failed" /\ raised = "zip") THEN {<<size, suffix>>} ELSE {})
    /\ pc = "done" =>
          /\ Logged("zip") = Pairs
          /\ \A p \in Pairs :
                LET s == ExportedPath(env, p[1], p[2])
                    zip_path == Parent(s) \o << Name(s) \o <<"zip">> >>
                IN  Exists(fs, zip_path) /\ fs[zip_path].kind = "zip"

C4_Witness == pc = "done" /\ Logged("zip") = Pairs /\ Printed(SuccessMessage)

\* the archive of the artifact at s, by the claim's naming: <artifact-name>.zip
\* in the directory of s
ArchiveOf(s) == Parent(s) \o << Name(s) \o <<"zip">> >>

\* the entries an archive of the artifact at s is to hold: one for every file and
\* directory below s, its name relative to the parent of s
ArchiveEntries(s) ==
    {[name |-> <<Name(s)>> \o RelativeTo(q, s), kind |-> fs[q].kind, data |-> fs[q].data] :
        q \in Rglob(fs, s)}

Archives == {q \in DOMAIN fs : fs[q].kind = "zip"}

\* C5 as stated: an archive that has been produced is next to the source
\* artifact, is named <artifact-name>.zip, is never under the Models tree, and
\* holds exactly one entry for each file and directory below the artifact,
\* named relative to the artifact's parent.
C5_ArchiveOutsideModels ==
    /\ \A q \in Archives : ~IsPrefix(APP_MODELS, q)
    /\ LastOp = "zip" =>
          /\ ArchiveOf(src) \in Archives
          /\ fs[ArchiveOf(src)].entries = ArchiveEntries(src)

\* C5 as amended: an archive that has been produced is next to the source
\* artifact, wherever the library left it (under the Models tree too, when the
\* artifact is there), is named <artifact-name>.zip, and holds exactly one entry
\* for each file and directory below the artifact, named relative to the
\* artifact's parent.
C5_ArchiveBesideSource ==
    /\ \A q \in Archives :
          /\ src # NoPath /\ Parent(q) = Parent(src)
          /\ IsPrefix(APP_MODELS, q) <=> IsPrefix(APP_MODELS, Parent(src))
    /\ LastOp = "zip" =>
          /\ ArchiveOf(src) \in Archives
          /\ fs[ArchiveOf(src)].entries = ArchiveEntries(src)
          /\ \A x \in fs[ArchiveOf(src)].entries : x.name[1] = Name(src)

C5_Witness ==
    /\ LastOp = "zip" /\ env.pkg = PkgNested /\ env.dir = APP_MODELS
    /\ IsPrefix(APP_MODELS, ArchiveOf(src)) /\ ArchiveOf(src) \in Archives
    /\ Cardinality(fs[ArchiveOf(src)].entries) = 3

\* the destination as a function of the task directory and the file name alone
DestinationOf(task, filename) ==
    << <<"repo">>, <<"YOLOiOSApp">>, <<"Models">>, <<task>>, filename >>

\* C6: the destination of an iteration is APP_MODELS/<TASKS[suffix]>/<file name
\* of the exported artifact>, a function of the task and that file name only:
\* not of the size, the export directory, the filesystem or earlier iterations.
C6_DestinationPure ==
    pc \in {"mkdir", "rm", "copy", "zip"} =>
        /\ dst = DestinationOf(TASKS[suffix], Name(src))
        /\ dst = APP_MODELS \o << <<TASKS[suffix]>> >> \o << Name(src) >>

\* a second size reaches the removal step with the same suffix and file name as
\* the first, and finds the first one's copy at its destination
C6_Witness ==
    /\ pc = "rm" /\ env.naming = "task" /\ env.dir = APP_MODELS /\ si = 2 /\ ti = 3
    /\ model_name = "yolo26s-seg.pt"
    /\ dst = DestinationOf("Segment", <<"yolo26-seg", "mlpackage">>)
    /\ Tree(fs, dst) = ExportedTree("yolo26n-seg.pt")

\* C9: the steps of an iteration are logged in the order load, export, mkdir,
\* rmtree (only when the destination was there), copy, zip; a pair is begun only
\* after the archive of the pair before it in size-major order; the copy starts
\* with the destination absent; and the closing message is printed last, after
\* all 25 pairs have been exported, copied and archived.
C9_Sequential ==
    /\ Len(log) > 0 => log[1] = [op |-> "load", size |-> "n", suffix |-> ""]
    /\ \A k \in 1..(Len(log) - 1) :
          LET e == log[k]
              f == log[k + 1]
          IN  IF e.op = "zip"
              THEN /\ f.op = "load"
                   /\ SizeMajor(f.size, f.suffix) = SizeMajor(e.size, e.suffix) + 1
              ELSE /\ f.size = e.size /\ f.suffix = e.suffix
                   /\ <<e.op, f.op>> \in
                         { <<"load", "export">>, <<"export", "mkdir">>, <<"mkdir", "rmtree">>,
                           <<"mkdir", "copy">>, <<"rmtree", "copy">>, <<"copy", "zip">> }
    /\ pc = "copy" => ~Exists(fs, dst)
    /\ Printed(SuccessMessage) =>
          /\ stdout[Len(stdout)].text = SuccessMessage
          /\ ~\E k \in 1..(Len(stdout) - 1) : stdout[k].text = SuccessMessage
          /\ LastOp = "zip"
          /\ Logged("export") = Pairs /\ Logged("copy") = Pairs /\ Logged("zip") = Pairs

C9_Witness == Printed(SuccessMessage) /\ Times("rmtree") = 1 /\ Times("zip") = 25

\* what belongs to the pair p: its destination tree and its archive
Owned(p, q) ==
    LET s == ExportedPath(env, p[1], p[2])
    IN  IsPrefix(Dst(TASKS[p[2]], s), q) \/ q = ZipPath(s)

C7_AddNumbers ==
    /\ add.pc \in {"test", "done"} =>
          /\ add.ab = add.a + add.b
          /\ add.ab = add.ba
          /\ add.ab_c = add.a_bc
          /\ add.ab_c = add.a + add.b + add.c
    /\ add.pc = "done" => add.asserts = <<5, 0, 0 - 2>>

C7_Witness == add.pc = "done" /\ add.a = 0 - 1 /\ add.b = 3 /\ add.c = 0 - 3 /\ add.ab = 2

====
